---------------------------- MODULE Spec2Model ----------------------------
(***************************************************************************)
(* State-machine model of the aa-knapsack solvers (DpSolver, FptasDpSolver,*)
(* BktSolver, MinKnapSolver).  One solver call is made on one input; the   *)
(* MinKnap main loop is modelled expansion by expansion, the other solvers *)
(* as one step each.  A Rust panic (unwrap of None, index out of range,    *)
(* checked arithmetic overflow) is the outcome "Panic" of the call.        *)
(*                                                                         *)
(* Item indices and positions are 0-based as in the source; a TLA+         *)
(* sequence q holds source element k at q[k + 1].                          *)
(***************************************************************************)
EXTENDS Integers, Sequences, FiniteSets

VARIABLES
    items,                 \* KnapsackInput.items : Seq([weight, profit])
    capacity,              \* KnapsackInput.capacity
    granularity,           \* KnapsackInput.granularity
    method,                \* the solver selected for the call
    pc,                    \* position of the call
    solution,              \* the value the call returned (or NoSolution / a panic)
    inst,                  \* the MinKnapInstance
    current_states,        \* local of MinKnapInstance::solve
    visited_items_count,   \* local of MinKnapInstance::solve
    input,                 \* the value KnapsackInput::new / parse_input returned
    text,                  \* the text given to parse_input, a sequence of lines
    tie_overwrites,        \* history: overwrites of a last state on a weight tie
    fragments,             \* SolutionTree.fragments of a store used on its own
    fragment,              \* the caller's copy of a SolutionFragment
    pushed,                \* history: the fragments as they were when pushed
    returned               \* the index the last push_fragment returned

vars == <<items, capacity, granularity, method, pc, solution, inst,
          current_states, visited_items_count, input, text, tie_overwrites,
          fragments, fragment, pushed, returned>>

---------------------------------------------------------------------------
(* Bounds of the model.                                                    *)

MaxItems == 3
SmallItems == 2
MaxCapacity == 2
MaxProfit == 4
MaxGranularity == 2

(* The numbers written in a text are the multiples of FieldStep up to      *)
(* MaxField * FieldStep, so that one- and two-digit numbers occur.         *)
MaxField == 2
FieldStep == 7

(* Weights range over 0 (free), the fitting weights and one weight above   *)
(* every capacity.                                                         *)
MaxWeight == MaxCapacity + 1

(* u64::MAX stand-in: the largest integer of the checker; it exceeds every *)
(* capacity, weight sum and profit sum of the model, as u64::MAX exceeds   *)
(* every u32 capacity and weight in the source.                            *)
U64_MAX == 2147483647

(* u32::MAX stand-in, the largest weight, value and capacity of            *)
(* knapsack.rs: four bits wide, above every sum of weights or values of    *)
(* the inputs of Spec and below the sums of the inputs of SpecWide.        *)
U32_MAX == 15

(* u64::BITS, the width of SolutionFragment.value.                         *)
U64_BITS == 64

---------------------------------------------------------------------------
(* Helpers.                                                                *)

Min(a, b) == IF a <= b THEN a ELSE b
Max(a, b) == IF a >= b THEN a ELSE b

SetMax(S) == CHOOSE x \in S : \A y \in S : y <= x

RECURSIVE SumOver(_, _)
SumOver(S, f) ==
    IF S = {} THEN 0
    ELSE LET x == CHOOSE y \in S : TRUE IN f[x] + SumOver(S \ {x}, f)

(* Source element i of the item list.                                      *)
ItemAt(its, i) == its[i + 1]

Indices(its) == 0 .. (Len(its) - 1)

WeightOf(its, S) == SumOver(S, [i \in Indices(its) |-> ItemAt(its, i).weight])
ProfitOf(its, S) == SumOver(S, [i \in Indices(its) |-> ItemAt(its, i).profit])

(* The 0/1 knapsack optimum by enumeration of all subsets.                 *)
Optimum(its, cap) ==
    SetMax({ProfitOf(its, S) : S \in {T \in SUBSET Indices(its) : WeightOf(its, T) <= cap}})

(* Set of the elements of a sequence.                                      *)
Range(q) == {q[k] : k \in 1 .. Len(q)}

RECURSIVE SeqSum(_)
SeqSum(q) == IF q = <<>> THEN 0 ELSE Head(q) + SeqSum(Tail(q))

Ok(its, total) == [tag |-> "Ok", items |-> its, total_value |-> total]
Panic(where) == [tag |-> "Panic", items |-> <<>>, total_value |-> 0, at |-> where]
NoSolution == [tag |-> "None"]

---------------------------------------------------------------------------
(* KnapsackInput: validation at construction.                              *)

validate_items(its) ==
    IF \E k \in 1 .. Len(its) : its[k].weight = 0 THEN "InvalidItemWeight"
    ELSE IF \E k \in 1 .. Len(its) : its[k].profit = 0 THEN "InvalidItemValue"
    ELSE "Ok"

validate_capacity(cap) == IF cap = 0 THEN "InvalidCapacity" ELSE "Ok"

validate_granularity(g) == IF g = 0 THEN "InvalidGranularity" ELSE "Ok"

KnapsackInput_new(its, cap, g) ==
    IF validate_items(its) # "Ok" THEN validate_items(its)
    ELSE IF validate_capacity(cap) # "Ok" THEN validate_capacity(cap)
    ELSE validate_granularity(g)

(* The Input that minknap.rs is written against (items with a `profit`     *)
(* field, zero weights handled by prepare_items): capacity >= 1,           *)
(* granularity >= 1, weights may be zero, profits >= 1.                    *)
Input_new(its, cap, g) ==
    IF cap = 0 THEN "InvalidCapacity"
    ELSE IF g = 0 THEN "InvalidGranularity"
    ELSE IF \E k \in 1 .. Len(its) : its[k].profit = 0 THEN "InvalidItemValue"
    ELSE "Ok"

(* The value of KnapsackInput::new / parse_input: the input or the error.  *)
InputOk(its, cap, g) == [tag |-> "Ok", items |-> its, capacity |-> cap, granularity |-> g]
InputErr(e) == [tag |-> e, items |-> <<>>, capacity |-> 0, granularity |-> 0]
NoInput == [tag |-> "None", items |-> <<>>, capacity |-> 0, granularity |-> 0]

KnapsackInput_construct(its, cap, g) ==
    IF KnapsackInput_new(its, cap, g) = "Ok" THEN InputOk(its, cap, g)
    ELSE InputErr(KnapsackInput_new(its, cap, g))

max_cost(its) == SetMax({its[k].weight : k \in 1 .. Len(its)})

max_item_profit(its) == SeqSum([k \in 1 .. Len(its) |-> its[k].profit])

---------------------------------------------------------------------------
(* DpSolver.                                                               *)

(* A table whose unreachable entries keep the fill value of the vec!.      *)
DpInfinityUnset(its) == 0

(* The "infinity" of the table: u64::MAX - max_cost.                       *)
DpInfinity(its) == U64_MAX - max_cost(its)

(* Row 0 of the table.                                                     *)
DpBaseRow(its) ==
    [p \in 0 .. max_item_profit(its) |->
        IF p = 0 THEN 0
        ELSE IF p <= ItemAt(its, 0).profit THEN ItemAt(its, 0).weight
        ELSE DpInfinity(its)]

(* One cell of row i >= 1 from row i - 1.                                  *)
DpCellNoWeight(prev, item, p) ==
    IF p = 0 THEN 0
    ELSE IF p >= item.profit THEN Min(prev[p], prev[p - item.profit])
    ELSE prev[p]

DpCell(prev, item, p) ==
    IF p = 0 THEN 0
    ELSE IF p >= item.profit
         THEN Min(prev[p], prev[p - item.profit] + item.weight)
    ELSE prev[p]

(* Rows 0 .. i of the table, as a sequence of functions over 0 .. P.       *)
RECURSIVE DpRows(_, _)
DpRows(its, i) ==
    IF i = 0 THEN <<DpBaseRow(its)>>
    ELSE LET rows == DpRows(its, i - 1)
             prev == rows[i]
         IN Append(rows, [p \in 0 .. max_item_profit(its) |->
                             DpCell(prev, ItemAt(its, i), p)])

gen_table(its) == DpRows(its, Len(its) - 1)

(* The loop of gen_path over i = n-1 down to 1; st = [path, profit].       *)
RECURSIVE GenPathLoop(_, _, _, _)
GenPathLoop(tbl, its, i, st) ==
    IF i < 1 THEN st
    ELSE LET take == tbl[i + 1][st.profit] # tbl[i][st.profit]
             st1 == IF take
                    THEN [path |-> Append(st.path, i),
                          profit |-> st.profit - ItemAt(its, i).profit]
                    ELSE st
         IN IF st1.profit = 0 THEN st1 ELSE GenPathLoop(tbl, its, i - 1, st1)

gen_path(tbl, its, maxp) ==
    LET st == GenPathLoop(tbl, its, Len(its) - 1, [path |-> <<>>, profit |-> maxp])
    IN IF st.profit > 0 THEN Append(st.path, 0) ELSE st.path

DpSolver_solve(its, cap) ==
    IF Len(its) = 0 THEN Panic("max_cost: unwrap on None")
    ELSE LET tbl  == gen_table(its)
             last == tbl[Len(its)]
             maxp == SetMax({p \in DOMAIN last : last[p] <= cap})
         IN Ok(gen_path(tbl, its, maxp), maxp)

---------------------------------------------------------------------------
(* FptasDpSolver.  The scaling factor max_value / (granularity * n) is an  *)
(* f64; it is kept as the exact fraction num / den.  Over the ranges of    *)
(* the model (max_value <= 6, granularity * n <= 20 and not 11) every      *)
(* floor of an IEEE-754 double quotient or product below equals the floor  *)
(* of the exact rational, so the integer divisions give the f64 results.   *)

get_scaling_factor(its, g) ==
    [num |-> SetMax({its[k].profit : k \in 1 .. Len(its)}), den |-> g * Len(its)]

scale_items(its, g) ==
    LET scale == get_scaling_factor(its, g)
    IN [k \in 1 .. Len(its) |->
           [weight |-> its[k].weight,
            profit |-> Max((its[k].profit * scale.den) \div scale.num, 1)]]

get_actual_solution(scaled_solution, its, g) ==
    LET scale == get_scaling_factor(its, g)
    IN Ok(scaled_solution.items,
          (scaled_solution.total_value * scale.num) \div scale.den)

FptasDpSolver_solve(its, cap, g) ==
    IF Len(its) = 0 THEN Panic("get_scaling_factor: unwrap on None")
    ELSE LET scaled_items == scale_items(its, g)
         IN IF KnapsackInput_new(scaled_items, cap, g) # "Ok"
            THEN Panic("KnapsackInput::new(scaled): unwrap on Err")
            ELSE get_actual_solution(DpSolver_solve(scaled_items, cap), its, g)

---------------------------------------------------------------------------
(* BktSolver: the loop of bkt_iterative.  st holds the locals; stack       *)
(* entries are <<item, weight, value, included>>.  current_weight and      *)
(* current_value are u32: an addition above u32::MAX panics in a debug     *)
(* build and wraps in a release build.                                     *)

Wrap32(x) == x % (U32_MAX + 1)

RECURSIVE BktLoop(_, _, _, _)
BktLoop(its, cap, st, build) ==
    IF st.current_item < Len(its)
    THEN LET item == ItemAt(its, st.current_item)
         IN IF st.current_weight + item.weight > U32_MAX /\ build = "debug"
            THEN Panic("bkt_iterative: current_weight + item.weight overflows")
            ELSE IF Wrap32(st.current_weight + item.weight) <= cap
            THEN IF st.current_value + item.profit > U32_MAX /\ build = "debug"
                 THEN Panic("bkt_iterative: current_value += item.value overflows")
                 ELSE BktLoop(its, cap,
                   [st EXCEPT !.stack = Append(@, <<st.current_item, st.current_weight,
                                                    st.current_value, TRUE>>),
                              !.cur_items = Append(@, st.current_item),
                              !.cur_total = @ + item.profit,
                              !.current_weight = Wrap32(@ + item.weight),
                              !.current_value = Wrap32(@ + item.profit),
                              !.current_item = @ + 1], build)
            ELSE BktLoop(its, cap,
                   [st EXCEPT !.stack = Append(@, <<st.current_item, st.current_weight,
                                                    st.current_value, FALSE>>),
                              !.current_item = @ + 1], build)
    ELSE LET st1 == IF st.cur_total > st.best.total_value
                    THEN [st EXCEPT !.best = Ok(st.cur_items, st.cur_total)]
                    ELSE st
         IN IF st1.stack = <<>> THEN st1.best
            ELSE LET top  == st1.stack[Len(st1.stack)]
                     rest == SubSeq(st1.stack, 1, Len(st1.stack) - 1)
                     st2  == IF top[4]
                             THEN [st1 EXCEPT
                                     !.cur_items = SubSeq(@, 1, Len(@) - 1),
                                     !.cur_total = @ - ItemAt(its, top[1]).profit]
                             ELSE st1
                 IN BktLoop(its, cap,
                      [st2 EXCEPT !.stack = rest,
                                  !.current_item = top[1] + 1,
                                  !.current_weight = top[2],
                                  !.current_value = top[3]], build)

bkt_iterative(its, cap, build) ==
    BktLoop(its, cap,
        [best |-> Ok(<<>>, 0), stack |-> <<>>, cur_items |-> <<>>, cur_total |-> 0,
         current_weight |-> 0, current_value |-> 0, current_item |-> 0], build)

---------------------------------------------------------------------------
(* SolutionFragment and SolutionTree.  `value` (a u64) is kept as the set  *)
(* of its set bit positions, a subset of 0 .. U64_BITS - 1.                *)

NoneIdx == -1

SolutionFragment_default == [value |-> {}, previous_idx |-> NoneIdx]

add_decision(frag, decision) ==
    [frag EXCEPT !.value = {k + 1 : k \in {j \in @ : j + 1 < U64_BITS}}
                           \cup (IF decision THEN {0} ELSE {})]

get_decision(frag, idx) == idx \in frag.value

update_previous_idx(frag, idx) == [frag EXCEPT !.previous_idx = idx]

clear_value(frag) == [frag EXCEPT !.value = {}]

(* A push that puts the fragment in front of the others.                   *)
PushFront(tree, frag) == <<frag>> \o tree

(* push_fragment: the tree after the push; the index returned is the       *)
(* length before it.                                                       *)
push_fragment(tree, frag) == Append(tree, frag)

get_fragment(tree, idx) == tree[idx + 1]

(* The variables of a store used on its own, and their value when no such  *)
(* store is in use.                                                        *)
store_vars == <<fragments, fragment, pushed, returned>>

StoreEmpty ==
    /\ fragments = <<>>
    /\ fragment = SolutionFragment_default
    /\ pushed = <<>>
    /\ returned = NoneIdx

---------------------------------------------------------------------------
(* MinKnap: preprocessing.                                                 *)

(* The comparator of the sort: a goes before b iff eff_b < eff_a.          *)
EffLess(its, a, b) ==
    ItemAt(its, b).profit * ItemAt(its, a).weight
        < ItemAt(its, a).profit * ItemAt(its, b).weight

(* Stable insertion of x into a sorted sequence: after every element that  *)
(* x does not strictly precede.                                            *)
SortInsert(its, q, x) ==
    LET k == Cardinality({j \in 1 .. Len(q) : ~EffLess(its, x, q[j])})
    IN SubSeq(q, 1, k) \o <<x>> \o SubSeq(q, k + 1, Len(q))

(* The elements of q are inserted in their order; acc is the sorted        *)
(* sequence of the first k - 1.                                            *)
RECURSIVE StableSortLoop(_, _, _, _)
StableSortLoop(its, q, k, acc) ==
    IF Len(acc) # k - 1 \/ k > Len(q) THEN acc
    ELSE StableSortLoop(its, q, k + 1, SortInsert(its, acc, q[k]))

StableSort(its, q) == StableSortLoop(its, q, 1, <<>>)

(* The indices kept by the filter_map, in index order.                     *)
RECURSIVE KeptItems(_, _, _)
KeptItems(its, cap, i) ==
    IF i >= Len(its) THEN <<>>
    ELSE (IF ItemAt(its, i).weight # 0 /\ ItemAt(its, i).weight <= cap
          THEN <<i>> ELSE <<>>) \o KeptItems(its, cap, i + 1)

prepare_items(its, cap) ==
    LET zero == {i \in Indices(its) : ItemAt(its, i).weight = 0}
    IN [efficiency_ordering |-> StableSort(its, KeptItems(its, cap, 0)),
        decision_vec |-> [i \in Indices(its) |-> i \in zero],
        base_profit |-> ProfitOf(its, zero)]

(* The loop of BreakSolution::new; acc = [i, total_profit, total_weight,   *)
(* decision_vec].  Returns the break solution and the decision vector.     *)
RECURSIVE BreakLoop(_, _, _, _)
BreakLoop(its, cap, ord, acc) ==
    IF acc.i >= Len(ord)
    THEN [break_index |-> acc.i, total_profit |-> acc.total_profit,
          total_weight |-> acc.total_weight, decision_vec |-> acc.decision_vec]
    ELSE LET item == ItemAt(its, ord[acc.i + 1])
         IN IF acc.total_weight + item.weight <= cap
            THEN BreakLoop(its, cap, ord,
                   [i |-> acc.i + 1,
                    total_profit |-> acc.total_profit + item.profit,
                    total_weight |-> acc.total_weight + item.weight,
                    decision_vec |-> [acc.decision_vec EXCEPT ![ord[acc.i + 1]] = TRUE]])
            ELSE [break_index |-> acc.i, total_profit |-> acc.total_profit,
                  total_weight |-> acc.total_weight, decision_vec |-> acc.decision_vec]

BreakSolution_new(its, cap, ord, dec) ==
    BreakLoop(its, cap, ord,
        [i |-> 0, total_profit |-> 0, total_weight |-> 0, decision_vec |-> dec])

(* MinKnapInstance::new, given the value t_init of `b - 1`.                *)
MinKnapInstance_new(its, cap, t_init) ==
    LET prep == prepare_items(its, cap)
        brk  == BreakSolution_new(its, cap, prep.efficiency_ordering, prep.decision_vec)
    IN [best_sol_weight |-> brk.total_weight,
        decision_vec |-> brk.decision_vec,
        efficiency_ordering |-> prep.efficiency_ordering,
        base_profit |-> prep.base_profit,
        break_solution |-> [break_index |-> brk.break_index,
                            total_profit |-> brk.total_profit,
                            total_weight |-> brk.total_weight],
        s |-> brk.break_index,
        t |-> t_init,
        profit_lower_bound |-> brk.total_profit,
        max_allowed_weight |-> cap + brk.total_weight,
        traversal_order |-> <<>>,
        best_sol_item |-> 0,
        best_sol_fragment |-> SolutionFragment_default,
        best_sol_taken |-> <<>>,
        solution_tree |-> <<>>]

(* The instance before MinKnapInstance::new has run.                       *)
NoInstance ==
    [best_sol_weight |-> 0, decision_vec |-> <<>>, efficiency_ordering |-> <<>>,
     base_profit |-> 0,
     break_solution |-> [break_index |-> 0, total_profit |-> 0, total_weight |-> 0],
     s |-> 0, t |-> 0, profit_lower_bound |-> 0, max_allowed_weight |-> 0,
     traversal_order |-> <<>>, best_sol_item |-> 0,
     best_sol_fragment |-> SolutionFragment_default, best_sol_taken |-> <<>>,
     solution_tree |-> <<>>]

---------------------------------------------------------------------------
(* MinKnap: the core.                                                      *)

(* `taken` is a history field: the decisions the state has taken, one per  *)
(* entry of the traversal log, in order.  best_sol_taken is the same for   *)
(* the remembered best state.  No step of the program reads them.          *)
MinKnapState(w, p, frag) ==
    [weight |-> w, profit |-> p, sol_fragment |-> frag, taken |-> <<>>]

(* get_item indexes efficiency_ordering; a position outside it panics.     *)
InOrdering(in, idx) == 0 <= idx /\ idx < Len(in.efficiency_ordering)

get_item(its, in, idx) == ItemAt(its, in.efficiency_ordering[idx + 1])

(* get_profit_upper_bound: [ok, val]; ok = FALSE is the panic of get_item. *)
(* The first guard compares with the length of the whole item list.        *)
get_profit_upper_bound(its, cap, in, st, s, t) ==
    IF st.weight <= cap
    THEN IF t + 1 >= Len(its) - 1
         THEN [ok |-> TRUE, val |-> st.profit]
         ELSE IF ~InOrdering(in, t + 1) THEN [ok |-> FALSE, val |-> 0]
         ELSE LET next_item == get_item(its, in, t + 1)
              IN [ok |-> TRUE,
                  val |-> st.profit
                          + ((cap - st.weight) * next_item.profit) \div next_item.weight]
    ELSE IF s = 0
         THEN [ok |-> TRUE, val |-> st.profit]
         ELSE LET prev_item == get_item(its, in, s - 1)
              IN [ok |-> TRUE,
                  val |-> Max(0, st.profit
                          - ((st.weight - cap) * prev_item.profit) \div prev_item.weight)]

(* An update that accepts a state of any weight.                          *)
TryUpdateAnyWeight(cap, in, st) ==
    IF st.profit > in.profit_lower_bound
    THEN [in EXCEPT !.profit_lower_bound = st.profit,
                    !.best_sol_weight = st.weight,
                    !.best_sol_item = Len(in.traversal_order) - 1,
                    !.best_sol_fragment = st.sol_fragment,
                    !.best_sol_taken = st.taken]
    ELSE in

try_update_lower_bound(cap, in, st) ==
    IF st.weight <= cap /\ st.profit > in.profit_lower_bound
    THEN [in EXCEPT !.profit_lower_bound = st.profit,
                    !.best_sol_weight = st.weight,
                    !.best_sol_item = Len(in.traversal_order) - 1,
                    !.best_sol_fragment = st.sol_fragment,
                    !.best_sol_taken = st.taken]
    ELSE in

(* The variant that always pushes, also on a weight tie.                   *)
PushAlways(next, st) == Append(next, st)

(* The tail of both branches: overwrite the last state of next_states on a *)
(* weight tie, push otherwise.                                             *)
WeightTie(next, st) == next # <<>> /\ next[Len(next)].weight = st.weight

PushOrOverwrite(next, st) ==
    IF WeightTie(next, st)
    THEN [next EXCEPT ![Len(next)] = st]
    ELSE Append(next, st)

Dominated(next, st) == next # <<>> /\ next[Len(next)].profit >= st.profit

(* The merge loop shared by explore_item_t (sign = 1, the item is added)   *)
(* and explore_item_s (sign = -1, the item is removed).  acc = [in, next,  *)
(* ti, li, panic, ties]: ti is the cursor of the transformed states        *)
(* (insert_index / remove_index), li the cursor of the states left         *)
(* unchanged (no_insert_index / no_remove_index); ties counts the          *)
(* overwrites on a weight tie.                                             *)
TransformFirst(cur, sign, item, ti, li) ==
    IF sign = 1
    THEN li >= Len(cur) \/ cur[li + 1].weight > cur[ti + 1].weight + item.weight
    ELSE ~(ti >= Len(cur) \/ cur[li + 1].weight <= cur[ti + 1].weight - item.weight)

(* The slice index the loop condition evaluates out of range.              *)
CursorPanics(cur, sign, ti, li) ==
    IF sign = 1
    THEN li < Len(cur) /\ ti >= Len(cur)
    ELSE ti < Len(cur) /\ li >= Len(cur)

RECURSIVE ExploreLoop(_, _, _, _, _, _)
ExploreLoop(its, cap, cur, sign, item, acc) ==
    IF acc.panic # "" \/ ~(acc.ti < Len(cur) \/ acc.li < Len(cur)) THEN acc
    ELSE IF CursorPanics(cur, sign, acc.ti, acc.li)
    THEN [acc EXCEPT !.panic = "current_states: index out of range"]
    ELSE IF TransformFirst(cur, sign, item, acc.ti, acc.li)
    THEN LET old == cur[acc.ti + 1]
             new_state == [MinKnapState(old.weight + sign * item.weight,
                                        old.profit + sign * item.profit,
                                        old.sol_fragment)
                              EXCEPT !.taken = old.taken]
             skip == [acc EXCEPT !.ti = @ + 1]
             ub == get_profit_upper_bound(its, cap, acc.in, new_state, acc.in.s, acc.in.t)
         IN IF new_state.weight < 0 \/ new_state.profit < 0
            THEN [acc EXCEPT !.panic = "explore_item_s: subtraction below zero"]
            ELSE IF new_state.weight > acc.in.max_allowed_weight
            THEN ExploreLoop(its, cap, cur, sign, item, skip)
            ELSE IF Dominated(acc.next, new_state)
            THEN ExploreLoop(its, cap, cur, sign, item, skip)
            ELSE IF ~ub.ok
            THEN [acc EXCEPT !.panic = "get_item: index out of range"]
            ELSE IF ub.val <= acc.in.profit_lower_bound
            THEN ExploreLoop(its, cap, cur, sign, item, skip)
            ELSE LET marked == [new_state EXCEPT
                                  !.sol_fragment = add_decision(@, TRUE),
                                  !.taken = Append(@, TRUE)]
                 IN ExploreLoop(its, cap, cur, sign, item,
                      [in |-> try_update_lower_bound(cap, acc.in, marked),
                       next |-> PushOrOverwrite(acc.next, marked),
                       ti |-> acc.ti + 1, li |-> acc.li, panic |-> "",
                       ties |-> acc.ties + (IF WeightTie(acc.next, marked) THEN 1 ELSE 0)])
    ELSE LET current_state == cur[acc.li + 1]
             skip == [acc EXCEPT !.li = @ + 1]
             ub == get_profit_upper_bound(its, cap, acc.in, current_state,
                                          acc.in.s, acc.in.t)
         IN IF Dominated(acc.next, current_state)
            THEN ExploreLoop(its, cap, cur, sign, item, skip)
            ELSE IF ~ub.ok
            THEN [acc EXCEPT !.panic = "get_item: index out of range"]
            ELSE IF ub.val <= acc.in.profit_lower_bound
            THEN ExploreLoop(its, cap, cur, sign, item, skip)
            ELSE LET marked == [current_state EXCEPT
                                  !.sol_fragment = add_decision(@, FALSE),
                                  !.taken = Append(@, FALSE)]
                 IN ExploreLoop(its, cap, cur, sign, item,
                      [acc EXCEPT !.next = PushOrOverwrite(@, marked),
                                  !.li = @ + 1,
                                  !.ties = @ + (IF WeightTie(acc.next, marked)
                                                THEN 1 ELSE 0)])

(* explore_item_t / explore_item_s on the instance whose t / s was just    *)
(* moved: [in, next, panic].                                               *)
ExploreAt(its, cap, in, cur, sign, position) ==
    LET in1 == [in EXCEPT !.traversal_order = Append(@, position)]
    IN IF ~InOrdering(in1, position)
       THEN [in |-> in1, next |-> <<>>, ti |-> 0, li |-> 0,
             panic |-> "get_item: index out of range", ties |-> 0]
       ELSE ExploreLoop(its, cap, cur, sign, get_item(its, in1, position),
                [in |-> in1, next |-> <<>>, ti |-> 0, li |-> 0, panic |-> "",
                 ties |-> 0])

explore_item_t(its, cap, in, cur) == ExploreAt(its, cap, in, cur, 1, in.t)

explore_item_s(its, cap, in, cur) == ExploreAt(its, cap, in, cur, -1, in.s)

(* update_solution_history: every U64_BITS decisions each state's fragment *)
(* is pushed on the tree and restarted.  acc = [tree, states].             *)
RECURSIVE FlushStates(_, _, _)
FlushStates(cur, k, acc) ==
    IF k > Len(cur) THEN acc
    ELSE LET prev_fragment_idx == Len(acc.tree)
         IN FlushStates(cur, k + 1,
              [tree |-> push_fragment(acc.tree, cur[k].sol_fragment),
               states |-> Append(acc.states,
                   [cur[k] EXCEPT !.sol_fragment =
                       clear_value(update_previous_idx(@, prev_fragment_idx))])])

(* A flush that restarts each fragment without linking it to the pushed    *)
(* one.                                                                    *)
RECURSIVE FlushStatesNoLink(_, _, _)
FlushStatesNoLink(cur, k, acc) ==
    IF k > Len(cur) THEN acc
    ELSE FlushStatesNoLink(cur, k + 1,
              [tree |-> push_fragment(acc.tree, cur[k].sol_fragment),
               states |-> Append(acc.states,
                   [cur[k] EXCEPT !.sol_fragment = clear_value(@)])])

UpdateHistoryNoLink(in, cur) ==
    IF Len(in.traversal_order) % U64_BITS = 0
    THEN FlushStatesNoLink(cur, 1, [tree |-> in.solution_tree, states |-> <<>>])
    ELSE [tree |-> in.solution_tree, states |-> cur]

update_solution_history(in, cur) ==
    IF Len(in.traversal_order) % U64_BITS = 0
    THEN FlushStates(cur, 1, [tree |-> in.solution_tree, states |-> <<>>])
    ELSE [tree |-> in.solution_tree, states |-> cur]


(* The for loop of reconstruct_solution over one fragment: i runs over     *)
(* 0 .. elements - 1; acc = [dec, panic].                                  *)
RECURSIVE ApplyFragment(_, _, _, _, _, _)
ApplyFragment(in, frag, decision_pos, elements, i, acc) ==
    IF i >= elements \/ acc.panic # "" THEN acc
    ELSE IF ~get_decision(frag, i)
    THEN ApplyFragment(in, frag, decision_pos, elements, i + 1, acc)
    ELSE IF decision_pos - i < 0 \/ decision_pos - i >= Len(in.traversal_order)
    THEN [acc EXCEPT !.panic = "traversal_order: index out of range"]
    ELSE LET effiency_order_idx == in.traversal_order[decision_pos - i + 1]
             actual_item_idx == in.efficiency_ordering[effiency_order_idx + 1]
         IN ApplyFragment(in, frag, decision_pos, elements, i + 1,
              [acc EXCEPT !.dec[actual_item_idx] =
                  ~(effiency_order_idx < in.break_solution.break_index)])

(* The variant that indexes the decision vector by the position in the     *)
(* efficiency ordering instead of the item index.                          *)
RECURSIVE ApplyFragmentByPosition(_, _, _, _, _, _)
ApplyFragmentByPosition(in, frag, decision_pos, elements, i, acc) ==
    IF i >= elements \/ acc.panic # "" THEN acc
    ELSE IF ~get_decision(frag, i)
    THEN ApplyFragmentByPosition(in, frag, decision_pos, elements, i + 1, acc)
    ELSE IF decision_pos - i < 0 \/ decision_pos - i >= Len(in.traversal_order)
    THEN [acc EXCEPT !.panic = "traversal_order: index out of range"]
    ELSE LET effiency_order_idx == in.traversal_order[decision_pos - i + 1]
         IN ApplyFragmentByPosition(in, frag, decision_pos, elements, i + 1,
              [acc EXCEPT !.dec[effiency_order_idx] =
                  ~(effiency_order_idx < in.break_solution.break_index)])

ProcessFragmentByPosition(in, frag, decision_pos, acc) ==
    ApplyFragmentByPosition(in, frag, decision_pos, (decision_pos % U64_BITS) + 1, 0, acc)

(* One pass of the loop body of reconstruct_solution.                      *)
ProcessFragment(in, frag, decision_pos, acc) ==
    ApplyFragment(in, frag, decision_pos, (decision_pos % U64_BITS) + 1, 0, acc)

RECURSIVE ReconstructLoop(_, _, _, _)
ReconstructLoop(in, frag, decision_pos, acc) ==
    LET elements_in_fragment == (decision_pos % U64_BITS) + 1
        acc1 == ProcessFragment(in, frag, decision_pos, acc)
    IN IF acc1.panic # "" \/ frag.previous_idx = NoneIdx THEN acc1
       ELSE IF frag.previous_idx >= Len(in.solution_tree)
       THEN [acc1 EXCEPT !.panic = "get_fragment: unwrap on None"]
       ELSE ReconstructLoop(in, get_fragment(in.solution_tree, frag.previous_idx),
                            Max(0, decision_pos - elements_in_fragment), acc1)

(* reconstruct_solution: the decision vector afterwards, [dec, panic].     *)
reconstruct_solution(in) ==
    IF in.traversal_order = <<>> THEN [dec |-> in.decision_vec, panic |-> ""]
    ELSE ReconstructLoop(in, in.best_sol_fragment, in.best_sol_item,
                         [dec |-> in.decision_vec, panic |-> ""])

(* The ascending sequence of the indices set in a decision vector.         *)
RECURSIVE SelectedFrom(_, _)
SelectedFrom(dec, i) ==
    IF i \notin DOMAIN dec THEN <<>>
    ELSE (IF dec[i] THEN <<i>> ELSE <<>>) \o SelectedFrom(dec, i + 1)

(* MinKnapSolver::solve from the triple returned by the instance.          *)
MinKnapSolver_collect(profit, decision_vec) == Ok(SelectedFrom(decision_vec, 0), profit)

---------------------------------------------------------------------------
(* The state machine.                                                      *)

Methods == {"Dp", "Bkt", "Fptas", "MinKnap"}

ItemSeqs(maxn) ==
    UNION {[1 .. n -> [weight : 0 .. MaxWeight, profit : 0 .. MaxProfit]] : n \in 0 .. maxn}

(* dp.rs, fptas.rs and bkt.rs take the KnapsackInput of knapsack.rs;       *)
(* minknap.rs takes the Input with a `profit` field and zero weights.      *)
Constructed(m, its, cap, g) ==
    IF m = "MinKnap" THEN Input_new(its, cap, g) = "Ok"
    ELSE KnapsackInput_new(its, cap, g) = "Ok"

(* The state after construction of the input and selection of the solver;  *)
(* a granularity is given only with the Fptas method.                      *)
InitWith(maxn) ==
    /\ method \in Methods
    /\ items \in ItemSeqs(maxn)
    /\ capacity \in 0 .. MaxCapacity
    /\ granularity \in 0 .. MaxGranularity
    /\ method # "Fptas" => granularity = 1
    /\ Constructed(method, items, capacity, granularity)
    /\ pc = "ready"
    /\ solution = NoSolution
    /\ inst = NoInstance
    /\ current_states = <<>>
    /\ visited_items_count = 0
    /\ input = InputOk(items, capacity, granularity)
    /\ text = <<>>
    /\ tie_overwrites = 0
    /\ StoreEmpty

Init == InitWith(MaxItems)

InitSmall == InitWith(SmallItems)

input_vars == <<items, capacity, granularity, method, input, text, store_vars>>
loop_vars == <<inst, current_states, visited_items_count, tie_overwrites>>

DpSolve ==
    /\ pc = "ready" /\ method = "Dp"
    /\ solution' = DpSolver_solve(items, capacity)
    /\ pc' = "done"
    /\ UNCHANGED <<input_vars, loop_vars>>

FptasSolve ==
    /\ pc = "ready" /\ method = "Fptas"
    /\ solution' = FptasDpSolver_solve(items, capacity, granularity)
    /\ pc' = "done"
    /\ UNCHANGED <<input_vars, loop_vars>>

BktSolve ==
    /\ pc = "ready" /\ method = "Bkt"
    /\ \E build \in {"debug", "release"} :
           solution' = bkt_iterative(items, capacity, build)
    /\ pc' = "done"
    /\ UNCHANGED <<input_vars, loop_vars>>

(* MinKnapInstance::new.  `b - 1` with b = 0 overflows usize: a debug      *)
(* build panics, a release build wraps to usize::MAX, kept as -1 (the      *)
(* value to which adding 1 gives 0).                                       *)
MinKnapNew ==
    /\ pc = "ready" /\ method = "MinKnap"
    /\ \E build \in {"debug", "release"} :
         LET in == MinKnapInstance_new(items, capacity, 0)
             b  == in.break_solution.break_index
         IN IF b = 0 /\ build = "debug"
            THEN /\ solution' = Panic("new: b - 1 overflows")
                 /\ pc' = "done"
                 /\ inst' = in
            ELSE /\ inst' = [in EXCEPT !.t = b - 1]
                 /\ pc' = "solve"
                 /\ UNCHANGED solution
    /\ UNCHANGED <<input_vars, current_states, visited_items_count, tie_overwrites>>

(* MinKnapInstance::solve up to the loop: the early return on              *)
(* break_index = items.len(), else the initial frontier.                   *)
MinKnapSolveEntry ==
    /\ pc = "solve"
    /\ IF inst.break_solution.break_index = Len(items)
       THEN /\ solution' = MinKnapSolver_collect(inst.break_solution.total_profit,
                                                 inst.decision_vec)
            /\ pc' = "done"
            /\ UNCHANGED <<current_states, visited_items_count>>
       ELSE /\ current_states' = <<MinKnapState(inst.break_solution.total_weight,
                                                inst.break_solution.total_profit,
                                                SolutionFragment_default)>>
            /\ visited_items_count' = 0
            /\ pc' = "loop"
            /\ UNCHANGED solution
    /\ UNCHANGED <<input_vars, inst, tie_overwrites>>

LoopCond == current_states # <<>> /\ visited_items_count < Len(items)

(* The effect of one expansion r = explore_item_*: the panic, or the swap  *)
(* of the buffers, update_solution_history and the count.                  *)
AfterExplore(r, next_pc) ==
    IF r.panic # ""
    THEN /\ solution' = Panic(r.panic)
         /\ pc' = "done"
         /\ inst' = r.in
         /\ UNCHANGED <<current_states, visited_items_count, tie_overwrites>>
    ELSE LET h == update_solution_history(r.in, r.next)
         IN /\ inst' = [r.in EXCEPT !.solution_tree = h.tree]
            /\ current_states' = h.states
            /\ visited_items_count' = visited_items_count + 1
            /\ tie_overwrites' = tie_overwrites + r.ties
            /\ pc' = next_pc
            /\ UNCHANGED solution

(* The first half of a loop iteration: t += 1; explore_item_t.             *)
ExpandT ==
    /\ pc = "loop" /\ LoopCond
    /\ inst.t + 1 < Len(items)
    /\ LET in1 == [inst EXCEPT !.t = @ + 1]
       IN AfterExplore(explore_item_t(items, capacity, in1, current_states),
                       IF in1.s > 0 THEN "after_t" ELSE "loop")
    /\ UNCHANGED input_vars

(* The second half of a loop iteration: s -= 1; explore_item_s.            *)
ExpandS ==
    /\ \/ pc = "after_t"
       \/ pc = "loop" /\ LoopCond /\ ~(inst.t + 1 < Len(items))
    /\ inst.s > 0
    /\ LET in1 == [inst EXCEPT !.s = @ - 1]
       IN AfterExplore(explore_item_s(items, capacity, in1, current_states), "loop")
    /\ UNCHANGED input_vars

(* The loop has ended: reconstruct_solution and the return through         *)
(* MinKnapSolver::solve.                                                   *)
MinKnapFinish ==
    /\ pc = "loop" /\ ~LoopCond
    /\ LET r == reconstruct_solution(inst)
       IN IF r.panic # ""
          THEN /\ solution' = Panic(r.panic)
               /\ UNCHANGED inst
          ELSE /\ inst' = [inst EXCEPT !.decision_vec = r.dec]
               /\ solution' = MinKnapSolver_collect(
                                 inst.profit_lower_bound + inst.base_profit, r.dec)
    /\ pc' = "done"
    /\ UNCHANGED <<input_vars, current_states, visited_items_count, tie_overwrites>>

Next ==
    \/ DpSolve
    \/ FptasSolve
    \/ BktSolve
    \/ MinKnapNew
    \/ MinKnapSolveEntry
    \/ ExpandT
    \/ ExpandS
    \/ MinKnapFinish

Spec == Init /\ [][Next]_vars

SpecSmall == InitSmall /\ [][Next]_vars

---------------------------------------------------------------------------
(* The MinKnap core on larger inputs: up to CoreItems items that each fit  *)
(* the capacity CoreCapacity, with profits that let two states of the      *)
(* frontier meet at one weight.                                            *)

CoreItems == 4
CoreCapacity == 3

CoreProfits == {2, 5, 6}

CoreItemSeqs ==
    UNION {[1 .. n -> [weight : 1 .. CoreCapacity, profit : CoreProfits]] :
               n \in 0 .. CoreItems}

InitCore ==
    /\ method = "MinKnap"
    /\ items \in CoreItemSeqs
    /\ capacity = CoreCapacity
    /\ granularity = 1
    /\ Constructed(method, items, capacity, granularity)
    /\ pc = "ready"
    /\ solution = NoSolution
    /\ inst = NoInstance
    /\ current_states = <<>>
    /\ visited_items_count = 0
    /\ input = InputOk(items, capacity, granularity)
    /\ text = <<>>
    /\ tie_overwrites = 0
    /\ StoreEmpty

NextCore ==
    \/ MinKnapNew
    \/ MinKnapSolveEntry
    \/ ExpandT
    \/ ExpandS
    \/ MinKnapFinish

SpecCore == InitCore /\ [][NextCore]_vars

---------------------------------------------------------------------------
(* KnapsackInput::parse_input.  A text is a sequence of lines (the items   *)
(* of str::lines), a line a sequence of characters.                        *)

Digits == <<"0", "1", "2", "3", "4", "5", "6", "7", "8", "9">>

IsDigit(c) == \E k \in 1 .. Len(Digits) : Digits[k] = c

DigitValue(c) == (CHOOSE k \in 1 .. Len(Digits) : Digits[k] = c) - 1

IsWhitespace(c) == c = " "

RECURSIVE trim_start(_)
trim_start(line) ==
    IF line # <<>> /\ IsWhitespace(Head(line)) THEN trim_start(Tail(line)) ELSE line

RECURSIVE trim_end(_)
trim_end(line) ==
    IF line # <<>> /\ IsWhitespace(line[Len(line)])
    THEN trim_end(SubSeq(line, 1, Len(line) - 1))
    ELSE line

trim(line) == trim_end(trim_start(line))

(* input.lines().map(str::trim).filter(|line| !line.is_empty())            *)
RECURSIVE NonEmptyLines(_)
NonEmptyLines(txt) ==
    IF txt = <<>> THEN <<>>
    ELSE (IF trim(Head(txt)) = <<>> THEN <<>> ELSE <<trim(Head(txt))>>)
             \o NonEmptyLines(Tail(txt))

(* line.split_whitespace(): cur is the field being read.                   *)
RECURSIVE SplitLoop(_, _, _)
SplitLoop(line, fields, cur) ==
    IF line = <<>> THEN (IF cur = <<>> THEN fields ELSE Append(fields, cur))
    ELSE IF IsWhitespace(Head(line))
    THEN SplitLoop(Tail(line), IF cur = <<>> THEN fields ELSE Append(fields, cur), <<>>)
    ELSE SplitLoop(Tail(line), fields, Append(cur, Head(line)))

split_whitespace(line) == SplitLoop(line, <<>>, <<>>)

RECURSIVE ParseDigits(_, _)
ParseDigits(field, acc) ==
    IF field = <<>> THEN acc
    ELSE ParseDigits(Tail(field), 10 * acc + DigitValue(Head(field)))

(* str::parse of an unsigned integer: [ok, val].                           *)
parse(field) ==
    IF field # <<>> /\ \A k \in 1 .. Len(field) : IsDigit(field[k])
    THEN [ok |-> TRUE, val |-> ParseDigits(field, 0)]
    ELSE [ok |-> FALSE, val |-> 0]

(* The item of a line of two fields: the value first, the weight second.   *)
ParsedItemSwapped(parts) ==
    [weight |-> parse(parts[1]).val, profit |-> parse(parts[2]).val]

ParsedItem(parts) ==
    [weight |-> parse(parts[2]).val, profit |-> parse(parts[1]).val]

(* The loop over lines.take(n): [tag, items].                              *)
RECURSIVE ParseItemLines(_, _, _)
ParseItemLines(lines, n, acc) ==
    IF n = 0 \/ lines = <<>> THEN [tag |-> "Ok", items |-> acc]
    ELSE LET parts == split_whitespace(Head(lines))
         IN IF Len(parts) # 2 THEN [tag |-> "InvalidItemSpecification", items |-> acc]
            ELSE IF ~parse(parts[1]).ok THEN [tag |-> "InvalidItemValue", items |-> acc]
            ELSE IF ~parse(parts[2]).ok THEN [tag |-> "InvalidItemWeight", items |-> acc]
            ELSE ParseItemLines(Tail(lines), n - 1, Append(acc, ParsedItem(parts)))

parse_input(txt) ==
    LET lines == NonEmptyLines(txt)
    IN IF Len(lines) < 1 THEN InputErr("MissingItemCount")
       ELSE IF ~parse(lines[1]).ok THEN InputErr("InvalidItemCount")
       ELSE IF Len(lines) < 2 THEN InputErr("MissingCapacity")
       ELSE IF ~parse(lines[2]).ok THEN InputErr("InvalidCapacity")
       ELSE LET r == ParseItemLines(SubSeq(lines, 3, Len(lines)), parse(lines[1]).val, <<>>)
            IN IF r.tag # "Ok" THEN InputErr(r.tag)
               ELSE KnapsackInput_construct(r.items, parse(lines[2]).val, 1)

(* The text format parse_input documents: the item count, the capacity,    *)
(* then one "value weight" line per item.  A layout d varies what the      *)
(* format leaves free: the declared count, a blank line, lines after the   *)
(* items, and the white space around and between the fields.               *)
RECURSIVE ToDigits(_)
ToDigits(n) ==
    IF n < 10 THEN <<Digits[n + 1]>>
    ELSE Append(ToDigits(n \div 10), Digits[(n % 10) + 1])

ItemLine(item, pad) ==
    ToDigits(item.profit) \o (IF pad THEN <<" ", " ">> ELSE <<" ">>) \o ToDigits(item.weight)

PadLine(line, pad) == IF pad THEN <<" ">> \o line \o <<" ">> ELSE line

ExtraLines(kind) ==
    IF kind = "garbage" THEN <<<<"x">>>>
    ELSE IF kind = "item" THEN <<ItemLine([weight |-> FieldStep, profit |-> FieldStep], FALSE)>>
    ELSE <<>>

InsertBlank(lines, at) ==
    IF at < 0 THEN lines
    ELSE SubSeq(lines, 1, at) \o <<<<" ">>>> \o SubSeq(lines, at + 1, Len(lines))

Layouts(its) ==
    [declared : 0 .. Len(its) + 1, blank : -1 .. Len(its) + 2,
     extra : {"none", "garbage", "item"}, pad : BOOLEAN]

Encode(its, cap, d) ==
    LET body == <<ToDigits(d.declared), ToDigits(cap)>>
                    \o [k \in 1 .. Len(its) |-> ItemLine(its[k], d.pad)]
                    \o ExtraLines(d.extra)
    IN InsertBlank([k \in 1 .. Len(body) |-> PadLine(body[k], d.pad)], d.blank)

(* Construction and parsing as a state machine: KnapsackInput::new on      *)
(* arbitrary arguments, then parse_input on a text of the accepted input.  *)
FieldValues == {FieldStep * k : k \in 0 .. MaxField}

InputItemSeqs ==
    UNION {[1 .. n -> [weight : FieldValues, profit : FieldValues]] : n \in 0 .. SmallItems}

InitInput ==
    /\ method = "None"
    /\ items \in InputItemSeqs
    /\ capacity \in 0 .. MaxCapacity
    /\ granularity \in 0 .. MaxGranularity
    /\ pc = "args"
    /\ input = NoInput
    /\ text = <<>>
    /\ solution = NoSolution
    /\ inst = NoInstance
    /\ current_states = <<>>
    /\ visited_items_count = 0
    /\ tie_overwrites = 0
    /\ StoreEmpty

solver_vars == <<method, solution, inst, current_states, visited_items_count,
                 tie_overwrites, store_vars>>

NewInput ==
    /\ pc = "args"
    /\ input' = KnapsackInput_construct(items, capacity, granularity)
    /\ pc' = "constructed"
    /\ UNCHANGED <<items, capacity, granularity, text, solver_vars>>

WriteText ==
    /\ pc = "constructed" /\ input.tag = "Ok"
    /\ \E d \in Layouts(input.items) : text' = Encode(input.items, input.capacity, d)
    /\ pc' = "text"
    /\ UNCHANGED <<items, capacity, granularity, input, solver_vars>>

ParseInput ==
    /\ pc = "text"
    /\ input' = parse_input(text)
    /\ pc' = "parsed"
    /\ UNCHANGED <<items, capacity, granularity, text, solver_vars>>

NextInput ==
    \/ NewInput
    \/ WriteText
    \/ ParseInput

SpecInput == InitInput /\ [][NextInput]_vars

---------------------------------------------------------------------------
(* Properties.                                                             *)

Returned == pc = "done" /\ solution.tag = "Ok"

(* Total weight / profit of the items a solution lists, summed over the    *)
(* list as returned.                                                       *)
SelectedWeight(its, sel) == SeqSum([k \in 1 .. Len(sel) |-> ItemAt(its, sel[k]).weight])
SelectedProfit(its, sel) == SeqSum([k \in 1 .. Len(sel) |-> ItemAt(its, sel[k]).profit])

ZeroWeightItems == {i \in Indices(items) : ItemAt(items, i).weight = 0}
OverweightItems == {i \in Indices(items) : ItemAt(items, i).weight > capacity}

(* C1: whenever MinKnapSolver.solve and DpSolver.solve both return on an   *)
(* input, they return the same total_value.                                *)
C1_MinKnapEqualsDp ==
    (method = "MinKnap" /\ Returned /\ DpSolver_solve(items, capacity).tag = "Ok")
        => solution.total_value = DpSolver_solve(items, capacity).total_value

(* C2: on every input with at least one item DpSolver.solve returns, and   *)
(* its total_value is the maximum total profit over all subsets of items   *)
(* of total weight <= capacity.                                            *)
C2_DpOptimal ==
    (method = "Dp" /\ pc = "done" /\ Len(items) >= 1)
        => solution.tag = "Ok" /\ solution.total_value = Optimum(items, capacity)

(* A DpSolver call has returned an optimum that leaves out some item and   *)
(* takes some item.                                                        *)
C2_Witness ==
    /\ method = "Dp" /\ Returned /\ Len(items) >= 2
    /\ solution.total_value > 0
    /\ solution.total_value < max_item_profit(items)

(* C3: the item list MinKnapSolver.solve returns has total weight           *)
(* <= capacity and total profit equal to the returned total_value.         *)
C3_MinKnapWitnessConsistent ==
    (method = "MinKnap" /\ Returned)
        => /\ SelectedWeight(items, solution.items) <= capacity
           /\ SelectedProfit(items, solution.items) = solution.total_value

(* MinKnap has returned a solution that improves on the break solution,    *)
(* rebuilt by reconstruct_solution from a fragment with a set decision.    *)
C3_Witness ==
    /\ method = "MinKnap" /\ Returned
    /\ inst.profit_lower_bound > inst.break_solution.total_profit
    /\ inst.best_sol_fragment.value # {}
    /\ inst.traversal_order # <<>>

(* C4: the subset FptasDpSolver.solve returns fits the capacity and its    *)
(* total_value is the sum of the original profits of that subset.          *)
C4_FptasTrueProfit ==
    (method = "Fptas" /\ Returned)
        => /\ SelectedWeight(items, solution.items) <= capacity
           /\ solution.total_value = SelectedProfit(items, solution.items)

(* C5: the total_value FptasDpSolver.solve returns never exceeds the       *)
(* exact optimum.                                                          *)
C5_FptasAtMostOptimum ==
    (method = "Fptas" /\ Returned)
        => solution.total_value <= Optimum(items, capacity)

(* C6: with granularity g, g * total_value of FptasDpSolver.solve is at    *)
(* least (g - 1) * optimum.                                                *)
C6_FptasLowerBound ==
    (method = "Fptas" /\ Returned)
        => granularity * solution.total_value
               >= (granularity - 1) * Optimum(items, capacity)

(* C7: on every input that KnapsackInput::new accepts, the call of every   *)
(* solver completes with a solution (no panic).                            *)
C7_SolversNeverFail ==
    (pc = "done" /\ KnapsackInput_new(items, capacity, granularity) = "Ok")
        => solution.tag = "Ok"

(* C8: on an empty item list every solver returns no items and             *)
(* total_value 0.                                                          *)
C8_EmptyInputTrivial ==
    (pc = "done" /\ items = <<>>) => solution = Ok(<<>>, 0)

C10_OverweightItemsDropped ==
    (method = "MinKnap" /\ pc = "done" /\ OverweightItems # {})
        => /\ solution.tag = "Ok"
           /\ Range(solution.items) \cap OverweightItems = {}
           /\ solution.total_value = Optimum(items, capacity)

(* The working list: the positions of the efficiency ordering, and the      *)
(* items it holds.                                                         *)
WorkingItems == Range(inst.efficiency_ordering)

(* The greedy prefix took the whole of a non-empty working list.            *)
AllWorkingItemsFit ==
    /\ method = "MinKnap" /\ pc # "ready"
    /\ inst.efficiency_ordering # <<>>
    /\ inst.break_solution.break_index = Len(inst.efficiency_ordering)

(* C11: when the greedy prefix takes the whole working list (b = n' >= 1), *)
(* MinKnap makes no core expansion and returns the working list plus the   *)
(* zero-weight items, with total_value the sum of their profits; when all  *)
(* items together fit, that is every index and the sum of all profits.     *)
C11_AllFitReturnsBreakSolution ==
    AllWorkingItemsFit
        => /\ pc \in {"solve", "done"}
           /\ inst.traversal_order = <<>>
           /\ pc = "done"
                => /\ solution.tag = "Ok"
                   /\ Range(solution.items) = WorkingItems \cup ZeroWeightItems
                   /\ solution.total_value
                        = ProfitOf(items, WorkingItems \cup ZeroWeightItems)
                   /\ WeightOf(items, Indices(items)) <= capacity
                        => /\ Range(solution.items) = Indices(items)
                           /\ solution.total_value = max_item_profit(items)

(* C12: KnapsackInput::new returns InvalidCapacity whenever capacity = 0,    *)
(* whatever the items and the granularity, and InvalidGranularity whenever *)
(* capacity >= 1 and granularity = 0, whatever the items.                  *)
C12_CapacityAndGranularityErrors ==
    pc = "constructed"
        => /\ capacity = 0 => input = InputErr("InvalidCapacity")
           /\ (capacity >= 1 /\ granularity = 0) => input = InputErr("InvalidGranularity")

(* C13: KnapsackInput::new accepts every item list with profits >= 1 (the  *)
(* weights may be 0) when capacity >= 1 and granularity >= 1, and the      *)
(* input holds the items in the given order.                               *)
C13_ZeroWeightAccepted ==
    (/\ pc = "constructed"
     /\ capacity >= 1 /\ granularity >= 1
     /\ \A k \in 1 .. Len(items) : items[k].profit >= 1)
        => input = InputOk(items, capacity, granularity)

(* The first line of the text declares more items than there are lines     *)
(* after the capacity line.                                                *)
FewerItemLinesThanDeclared ==
    LET lines == NonEmptyLines(text)
    IN /\ Len(lines) >= 2
       /\ parse(lines[1]).ok /\ parse(lines[2]).ok
       /\ Len(lines) - 2 < parse(lines[1]).val

(* C14: parsing a text with fewer item lines than the count it declares    *)
(* fails with InsufficientItems.                                           *)
C14_InsufficientItems ==
    (pc = "parsed" /\ FewerItemLinesThanDeclared) => input = InputErr("InsufficientItems")

(* The text is a text of the constructed input <<items, capacity,          *)
(* granularity>>: its count line declares all the items.                   *)
TextOfInput ==
    /\ KnapsackInput_new(items, capacity, granularity) = "Ok"
    /\ \E d \in Layouts(items) : d.declared = Len(items) /\ text = Encode(items, capacity, d)

(* C15 as stated: parsing a text of an input gives back the input, the     *)
(* granularity included.                                                   *)
C15_ParseRoundTrip ==
    (pc = "parsed" /\ TextOfInput) => input = InputOk(items, capacity, granularity)

(* C15, amended: parsing a text of an input that KnapsackInput::new        *)
(* accepted gives the same items in the same order and the same capacity,  *)
(* with granularity 1 (the text carries no granularity).                   *)
C15_ParseRoundTripDefaultGranularity ==
    (pc = "parsed" /\ TextOfInput) => input = InputOk(items, capacity, 1)

(* A text of a two-item input of granularity > 1, with a blank line,       *)
(* padding and a line after the items, has been parsed; the items differ   *)
(* and so do weight and profit.                                            *)
C15_Witness ==
    /\ pc = "parsed" /\ TextOfInput
    /\ Len(items) = 2 /\ items[1] # items[2]
    /\ items[1].weight # items[1].profit
    /\ Len(text) = Len(items) + 4
    /\ \E k \in 1 .. Len(text) : text[k] # trim(text[k])
    /\ granularity > 1
    /\ input.tag = "Ok"

StrictlyAscending(q) == \A k \in 1 .. Len(q) - 1 : q[k] < q[k + 1]

(* C16: the items a witness-returning solver (MinKnap, Fptas) returns are  *)
(* strictly ascending indices of the input, each in [0, n).                *)
C16_ItemsAscendingInRange ==
    (method \in {"MinKnap", "Fptas"} /\ Returned)
        => /\ StrictlyAscending(solution.items)
           /\ \A k \in 1 .. Len(solution.items) :
                  0 <= solution.items[k] /\ solution.items[k] < Len(items)

(* The frontier is strictly increasing in weight and in profit.            *)
FrontierOrdered(states) ==
    \A k \in 1 .. Len(states) - 1 :
        /\ states[k].weight < states[k + 1].weight
        /\ states[k].profit < states[k + 1].profit

(* C17: the frontier explore_item_t or explore_item_s produced (the        *)
(* current states after the swap of the buffers) is strictly increasing in *)
(* weight and strictly increasing in profit.                               *)
C17_FrontierStrictlyOrdered ==
    (method = "MinKnap" /\ inst.traversal_order # <<>>) => FrontierOrdered(current_states)

(* An expansion has overwritten the last state on a weight tie and left a  *)
(* frontier of two or more states.                                         *)
C17_Witness ==
    /\ method = "MinKnap" /\ pc \in {"loop", "after_t"}
    /\ inst.traversal_order # <<>>
    /\ tie_overwrites > 0
    /\ Len(current_states) >= 2

(* The items at a set of positions of the efficiency ordering.             *)
ItemsAtPositions(in, P) == {in.efficiency_ordering[k + 1] : k \in P}

(* The profits of the feasible selections obtainable from state st with    *)
(* the core window [s, t]: items at positions > t are added, items at      *)
(* positions < s are removed.                                              *)
CompletionProfits(its, cap, in, st, s, t) ==
    LET n_prime == Len(in.efficiency_ordering)
    IN {st.profit + ProfitOf(its, ItemsAtPositions(in, A))
                  - ProfitOf(its, ItemsAtPositions(in, R)) :
           <<A, R>> \in {c \in (SUBSET ((t + 1) .. (n_prime - 1))) \X (SUBSET (0 .. (s - 1))) :
                           st.weight + WeightOf(its, ItemsAtPositions(in, c[1]))
                                     - WeightOf(its, ItemsAtPositions(in, c[2])) <= cap}}

BoundIsUpper(its, cap, in, st, s, t) ==
    get_profit_upper_bound(its, cap, in, st, s, t).ok
        => \A p \in CompletionProfits(its, cap, in, st, s, t) :
               get_profit_upper_bound(its, cap, in, st, s, t).val >= p

(* C18: the value get_profit_upper_bound computes for a state and a core   *)
(* window reached during solve is at least the profit of every feasible    *)
(* selection obtainable from the state by adding items beyond t and        *)
(* removing items below s: for the states of the frontier with the window  *)
(* they were kept under, and for the states explore_item_t is about to     *)
(* carry through with the window moved to t + 1.                           *)
C18_UpperBoundIsUpper ==
    (method = "MinKnap" /\ pc \in {"loop", "after_t"})
        => /\ \A k \in 1 .. Len(current_states) :
                  BoundIsUpper(items, capacity, inst, current_states[k], inst.s, inst.t)
           /\ (pc = "loop" /\ LoopCond /\ inst.t + 1 < Len(inst.efficiency_ordering))
                => \A k \in 1 .. Len(current_states) :
                       BoundIsUpper(items, capacity, inst, current_states[k],
                                    inst.s, inst.t + 1)

(* The instance exists: MinKnapInstance::new has run.                     *)
InSolve == method = "MinKnap" /\ pc # "ready"

(* Some selection of working items has the weight and the profit recorded  *)
(* as best_sol_weight and profit_lower_bound.                              *)
LowerBoundIsSelection ==
    \E X \in SUBSET WorkingItems :
        /\ WeightOf(items, X) = inst.best_sol_weight
        /\ ProfitOf(items, X) = inst.profit_lower_bound

LowerBoundFeasible ==
    InSolve => inst.best_sol_weight <= capacity /\ LowerBoundIsSelection

(* A state of the frontier whose transformation by the step's wall item    *)
(* is feasible and has the new lower bound as its profit.                  *)
AcceptedTransformed ==
    \E k \in 1 .. Len(current_states) :
        LET st == current_states[k]
        IN \/ /\ inst'.t = inst.t + 1 /\ inst'.s = inst.s
              /\ InOrdering(inst, inst'.t)
              /\ st.weight + get_item(items, inst, inst'.t).weight <= capacity
              /\ st.weight + get_item(items, inst, inst'.t).weight = inst'.best_sol_weight
              /\ st.profit + get_item(items, inst, inst'.t).profit = inst'.profit_lower_bound
           \/ /\ inst'.s = inst.s - 1 /\ inst'.t = inst.t
              /\ InOrdering(inst, inst'.s)
              /\ st.weight - get_item(items, inst, inst'.s).weight <= capacity
              /\ st.weight - get_item(items, inst, inst'.s).weight = inst'.best_sol_weight
              /\ st.profit - get_item(items, inst, inst'.s).profit = inst'.profit_lower_bound

LowerBoundStep ==
    /\ (pc = "ready" /\ InSolve')
          => inst'.profit_lower_bound = inst'.break_solution.total_profit
    /\ (InSolve /\ InSolve')
          => /\ inst'.profit_lower_bound >= inst.profit_lower_bound
             /\ inst'.profit_lower_bound # inst.profit_lower_bound
                   => AcceptedTransformed

(* C19: profit_lower_bound starts at the break-solution profit and never   *)
(* decreases; it changes only in an expansion that accepts a newly         *)
(* transformed state of weight <= capacity and larger profit; and at every *)
(* point it is the profit of a selection of weight best_sol_weight, which  *)
(* is at most the capacity.                                                *)
C19_LowerBoundMonotoneFeasible ==
    [] LowerBoundFeasible /\ [][LowerBoundStep]_vars

C19_Witness ==
    /\ method = "MinKnap" /\ pc \in {"loop", "after_t"}
    /\ inst.profit_lower_bound > inst.break_solution.total_profit
    /\ inst.best_sol_weight # inst.break_solution.total_weight
    /\ LowerBoundIsSelection

(* The core window is inside the efficiency ordering and around the break *)
(* position; every logged position is a position of the ordering, and no   *)
(* get_item was called with a position outside it.                         *)
CoreWindowInOrdering ==
    InSolve =>
        LET n_prime == Len(inst.efficiency_ordering)
            b == inst.break_solution.break_index
        IN /\ pc \in {"loop", "after_t"}
                 => 0 <= inst.s /\ inst.s <= b /\ b <= inst.t + 1 /\ inst.t + 1 <= n_prime
           /\ \A k \in 1 .. Len(inst.traversal_order) :
                  InOrdering(inst, inst.traversal_order[k])
           /\ ~(solution.tag = "Panic" /\ solution.at = "get_item: index out of range")

(* One expansion moves exactly one wall by one; no step moves s up or t    *)
(* down.                                                                   *)
CoreWindowStep ==
    (pc \in {"loop", "after_t"})
        => /\ inst'.s <= inst.s /\ inst'.t >= inst.t
           /\ Len(inst'.traversal_order) = Len(inst.traversal_order) + 1
                 => \/ inst'.t = inst.t + 1 /\ inst'.s = inst.s
                    \/ inst'.s = inst.s - 1 /\ inst'.t = inst.t
           /\ Len(inst'.traversal_order) = Len(inst.traversal_order)
                 => inst'.s = inst.s /\ inst'.t = inst.t

(* C20: at every point of the main loop 0 <= s <= b <= t + 1 <= n', where  *)
(* n' is the length of the efficiency ordering; s never increases, t never *)
(* decreases, each expansion moves exactly one wall by one, and every      *)
(* position pushed on the traversal log or passed to get_item is below n'. *)
C20_CoreWindow ==
    [] CoreWindowInOrdering /\ [][CoreWindowStep]_vars

(* The main loop is at its test: one iteration has ended or none has      *)
(* begun.                                                                  *)
AtLoopTest == method = "MinKnap" /\ pc = "loop"

(* The loop stops as soon as the frontier is empty or n' expansions have   *)
(* been made; it never makes more than n'; and an iteration that does not  *)
(* stop has a wall to move.                                                *)
LoopStopsAtOrderingLength ==
    LET n_prime == Len(inst.efficiency_ordering)
    IN /\ (method = "MinKnap" /\ pc \in {"loop", "after_t"})
             => visited_items_count <= n_prime
       /\ (AtLoopTest /\ (current_states = <<>> \/ visited_items_count >= n_prime))
             => ~LoopCond
       /\ (AtLoopTest /\ LoopCond)
             => (inst.t + 1 < Len(items) \/ inst.s > 0)

(* Every step of the loop other than its exit is a completed expansion.    *)
LoopStepExpands ==
    (method = "MinKnap" /\ pc \in {"loop", "after_t"} /\ pc' \in {"loop", "after_t"})
        => visited_items_count' = visited_items_count + 1

(* C21: MinKnap's main loop terminates: it stops as soon as the frontier   *)
(* is empty or the number of core expansions has reached n', it performs   *)
(* at most n' expansions, every iteration that does not stop performs an   *)
(* expansion, and every run that enters the loop leaves it through its     *)
(* test.                                                                   *)
C21_LoopTerminates ==
    /\ [] LoopStopsAtOrderingLength
    /\ [][LoopStepExpands]_vars
    /\ [][(method = "MinKnap" /\ pc \in {"loop", "after_t"} /\ pc' = "done")
              => (pc = "loop" /\ ~LoopCond)]_vars
    /\ (AtLoopTest ~> pc = "done")

(* The process before main has read its arguments.                         *)
InitLive ==
    /\ method = "None"
    /\ items = <<>>
    /\ capacity = 0
    /\ granularity = 0
    /\ pc = "start"
    /\ solution = NoSolution
    /\ inst = NoInstance
    /\ current_states = <<>>
    /\ visited_items_count = 0
    /\ input = NoInput
    /\ text = <<>>
    /\ tie_overwrites = 0
    /\ StoreEmpty

(* main: the input is parsed and constructed and the solver is selected.   *)
MainStart ==
    /\ pc = "start"
    /\ \E m \in Methods, its \in ItemSeqs(MaxItems),
          cap \in 0 .. MaxCapacity, g \in 0 .. MaxGranularity :
          /\ m # "Fptas" => g = 1
          /\ Constructed(m, its, cap, g)
          /\ method' = m
          /\ items' = its
          /\ capacity' = cap
          /\ granularity' = g
          /\ input' = InputOk(its, cap, g)
    /\ pc' = "ready"
    /\ UNCHANGED <<solution, inst, current_states, visited_items_count, text,
                   tie_overwrites, store_vars>>

NextLive == MainStart \/ Next

(* A solver step can be taken: the solver has been called and has not     *)
(* returned or panicked.  This is ENABLED <<Next>>_vars.                   *)
CanStep == pc \notin {"start", "done"}

(* The scheduling of a sequential program: once the solver has been        *)
(* called, a step that can be taken is taken.  The condition is            *)
(* WF_vars(Next), written out with CanStep as its enabling condition.      *)
SpecLive ==
    InitLive /\ [][NextLive]_vars /\ ([]<>(~CanStep) \/ []<><<Next>>_vars)

---------------------------------------------------------------------------
(* Long runs of the MinKnap core: more core expansions than the width of   *)
(* a fragment.  The items are, in efficiency order, HistoryItems - 3 to    *)
(* HistoryItems items of weight 2 and profit 4, one item of weight 1 and   *)
(* profit 1, and up to HistoryTail items of weight 2 and profit 1; the     *)
(* capacity is CoreCapacity.  The frontier stays alive while the first     *)
(* group is explored, and the best state is found at the item of weight 1. *)

HistoryItems == 66
HistoryTail == 2

HistoryItemSeqs ==
    {[k \in 1 .. (m + 1 + tl) |->
         IF k <= m THEN [weight |-> 2, profit |-> 4]
         ELSE IF k = m + 1 THEN [weight |-> 1, profit |-> 1]
         ELSE [weight |-> 2, profit |-> 1]] :
        m \in (HistoryItems - 3) .. HistoryItems, tl \in 0 .. HistoryTail}

InitHistory ==
    /\ method = "MinKnap"
    /\ items \in HistoryItemSeqs
    /\ capacity = CoreCapacity
    /\ granularity = 1
    /\ Constructed(method, items, capacity, granularity)
    /\ pc = "ready"
    /\ solution = NoSolution
    /\ inst = NoInstance
    /\ current_states = <<>>
    /\ visited_items_count = 0
    /\ input = InputOk(items, capacity, granularity)
    /\ text = <<>>
    /\ tie_overwrites = 0
    /\ StoreEmpty

SpecHistory == InitHistory /\ [][NextCore]_vars

(* The walk of reconstruct_solution over a fragment chain, recording what  *)
(* it reads instead of writing the decision vector: reads[j] is the number *)
(* of times log position j was read, ones the log positions read as a      *)
(* decision 1, outside whether a position below 0 was read.                *)
RECURSIVE RecoverLoop(_, _, _, _)
RecoverLoop(tree, frag, decision_pos, acc) ==
    LET elements_in_fragment == (decision_pos % U64_BITS) + 1
        read == {decision_pos - i : i \in 0 .. (elements_in_fragment - 1)}
        acc1 == [reads |-> [j \in DOMAIN acc.reads |->
                               acc.reads[j] + (IF j \in read THEN 1 ELSE 0)],
                 ones |-> acc.ones \cup
                          {decision_pos - i : i \in {e \in 0 .. (elements_in_fragment - 1) :
                                                        get_decision(frag, e)}},
                 outside |-> acc.outside \/ (\E j \in read : j < 0)]
    IN IF frag.previous_idx = NoneIdx \/ frag.previous_idx >= Len(tree) THEN acc1
       ELSE RecoverLoop(tree, get_fragment(tree, frag.previous_idx),
                        Max(0, decision_pos - elements_in_fragment), acc1)

(* The walk from fragment frag at log position decision_pos recovers the   *)
(* decisions `taken`: each log position up to decision_pos is read once    *)
(* and gives the decision taken at it.                                     *)
RecoversExactly(in, frag, decision_pos, taken) ==
    LET r == RecoverLoop(in.solution_tree, frag, decision_pos,
                         [reads |-> [j \in 0 .. decision_pos |-> 0],
                          ones |-> {}, outside |-> FALSE])
    IN /\ Len(taken) = decision_pos + 1
       /\ ~r.outside
       /\ \A j \in 0 .. decision_pos :
              r.reads[j] = 1 /\ (j \in r.ones <=> taken[j + 1])

BestRecoverable ==
    IF inst.best_sol_taken = <<>>
    THEN inst.best_sol_fragment = SolutionFragment_default
    ELSE RecoversExactly(inst, inst.best_sol_fragment, inst.best_sol_item,
                         inst.best_sol_taken)

FrontierRecoverable ==
    \A k \in 1 .. Len(current_states) :
        RecoversExactly(inst, current_states[k].sol_fragment,
                        Len(inst.traversal_order) - 1, current_states[k].taken)

AfterExpansions ==
    method = "MinKnap" /\ pc \in {"loop", "after_t"} /\ inst.traversal_order # <<>>

(* C22 as stated: after any number k of core expansions, for every state   *)
(* of the frontier and for the remembered best state, the walk of the      *)
(* fragment chain that reconstruction makes recovers exactly the k         *)
(* decisions of the state, one per traversal-log entry and in order.       *)
C22_HistoryRecoverable ==
    AfterExpansions => BestRecoverable /\ FrontierRecoverable

(* C22 amended: the walk recovers the decisions of the remembered best     *)
(* state after any number of expansions, and those of every frontier state *)
(* whenever the number of expansions is not a multiple of the fragment     *)
(* width; right after a flush a frontier state's current fragment is empty *)
(* and its decisions are all in the fragments behind it.                   *)
C22_HistoryRecoverableBetweenFlushes ==
    AfterExpansions =>
        /\ BestRecoverable
        /\ Len(inst.traversal_order) % U64_BITS # 0 => FrontierRecoverable

C22_Witness ==
    /\ AfterExpansions
    /\ Len(inst.traversal_order) > U64_BITS
    /\ Len(current_states) >= 2
    /\ \A k \in 1 .. Len(current_states) :
           current_states[k].sol_fragment.previous_idx # NoneIdx
    /\ inst.best_sol_item >= U64_BITS
    /\ inst.best_sol_fragment.previous_idx # NoneIdx
    /\ BestRecoverable /\ FrontierRecoverable

---------------------------------------------------------------------------
(* The solution-fragment store used on its own: a caller holds one         *)
(* fragment, changes it, and pushes copies of it.                          *)

MaxFragments == 2
MaxDecisions == 2

InitStore ==
    /\ method = "None"
    /\ items = <<>>
    /\ capacity = 0
    /\ granularity = 0
    /\ pc = "store"
    /\ input = NoInput
    /\ text = <<>>
    /\ solution = NoSolution
    /\ inst = NoInstance
    /\ current_states = <<>>
    /\ visited_items_count = 0
    /\ tie_overwrites = 0
    /\ StoreEmpty

no_store_vars == <<items, capacity, granularity, text, input, pc, method, solution,
                   inst, current_states, visited_items_count, tie_overwrites>>

(* SolutionTree::push_fragment: the fragment is passed by value; the index *)
(* returned is the length before the push.                                 *)
StorePush ==
    /\ pc = "store" /\ Len(fragments) < MaxFragments
    /\ returned' = Len(fragments)
    /\ fragments' = push_fragment(fragments, fragment)
    /\ pushed' = Append(pushed, fragment)
    /\ UNCHANGED <<fragment, no_store_vars>>

StoreAddDecision ==
    /\ pc = "store" /\ \A k \in fragment.value : k + 1 < MaxDecisions
    /\ \E decision \in BOOLEAN : fragment' = add_decision(fragment, decision)
    /\ UNCHANGED <<fragments, pushed, returned, no_store_vars>>

StoreClearValue ==
    /\ pc = "store"
    /\ fragment' = clear_value(fragment)
    /\ UNCHANGED <<fragments, pushed, returned, no_store_vars>>

StoreUpdatePreviousIdx ==
    /\ pc = "store"
    /\ \E idx \in {NoneIdx} \cup (0 .. (Len(fragments) - 1)) :
           fragment' = update_previous_idx(fragment, idx)
    /\ UNCHANGED <<fragments, pushed, returned, no_store_vars>>

NextStore ==
    \/ StorePush
    \/ StoreAddDecision
    \/ StoreClearValue
    \/ StoreUpdatePreviousIdx

SpecStore == InitStore /\ [][NextStore]_vars

(* C23: push returns the number of fragments pushed before it, and after   *)
(* any later pushes and changes of the caller's copy, get(idx) is the      *)
(* fragment exactly as it was when pushed at idx; no index is used twice.  *)
C23_StoreStable ==
    pc = "store" =>
        /\ Len(fragments) = Len(pushed)
        /\ pushed # <<>> => returned = Len(pushed) - 1
        /\ \A idx \in 0 .. (Len(pushed) - 1) :
               get_fragment(fragments, idx) = pushed[idx + 1]

C23_Witness ==
    /\ pc = "store"
    /\ Len(pushed) = 2 /\ returned = 1
    /\ pushed[1] # pushed[2]
    /\ fragment # pushed[2] /\ fragment # pushed[1]
    /\ fragment.previous_idx # NoneIdx
    /\ get_fragment(fragments, 0) = pushed[1]
    /\ get_fragment(fragments, 1) = pushed[2]

(* Every addition gen_table performs for row i >= 1 (rows are numbered    *)
(* from 0) stays within u64: dp_table[i - 1][prev_profit] + weight.        *)
DpAdditionsInRange(its, tbl) ==
    \A i \in 1 .. (Len(its) - 1) :
        \A p \in 1 .. max_item_profit(its) :
            p >= ItemAt(its, i).profit
                => tbl[i][p - ItemAt(its, i).profit] <= U64_MAX - ItemAt(its, i).weight

DpEntriesBelowInfinity(its, tbl) ==
    \A i \in 1 .. Len(its) :
        \A p \in 0 .. max_item_profit(its) :
            0 <= tbl[i][p] /\ tbl[i][p] <= DpInfinity(its)

(* C24: during DpSolver's table construction no addition leaves the u64    *)
(* range and every entry stays at most the sentinel; the sentinel plus any *)
(* item weight is at most u64::MAX; and an entry equal to the sentinel is  *)
(* not <= capacity in the filter of solve.                                 *)
C24_DpNoOverflow ==
    (method = "Dp" /\ pc = "done" /\ Len(items) >= 1)
        => /\ \A k \in 1 .. Len(items) : DpInfinity(items) <= U64_MAX - items[k].weight
           /\ DpEntriesBelowInfinity(items, gen_table(items))
           /\ DpAdditionsInRange(items, gen_table(items))
           /\ \A p \in 0 .. max_item_profit(items) :
                  gen_table(items)[Len(items)][p] = DpInfinity(items)
                      => ~(gen_table(items)[Len(items)][p] <= capacity)

(* A run in which the sentinel is an operand of an addition with the       *)
(* largest weight, and an entry of the last row is the sentinel.           *)
C24_Witness ==
    /\ method = "Dp" /\ pc = "done" /\ Len(items) >= 2
    /\ solution.tag = "Ok"
    /\ \E i \in 1 .. (Len(items) - 1) :
          /\ ItemAt(items, i).weight = max_cost(items)
          /\ \E p \in 1 .. max_item_profit(items) :
                /\ p >= ItemAt(items, i).profit
                /\ gen_table(items)[i][p - ItemAt(items, i).profit] = DpInfinity(items)
    /\ \E p \in 0 .. max_item_profit(items) :
          gen_table(items)[Len(items)][p] = DpInfinity(items)

---------------------------------------------------------------------------
(* BktSolver on inputs whose weights, values and capacity range over the   *)
(* whole of u32: the smallest value, the middle and u32::MAX.              *)

WideItems == 3

WideValues == {1, (U32_MAX + 1) \div 2, U32_MAX}

WideItemSeqs ==
    UNION {[1 .. n -> [weight : WideValues, profit : WideValues]] : n \in 0 .. WideItems}

InitWide ==
    /\ method = "Bkt"
    /\ items \in WideItemSeqs
    /\ capacity \in WideValues
    /\ granularity = 1
    /\ Constructed(method, items, capacity, granularity)
    /\ pc = "ready"
    /\ solution = NoSolution
    /\ inst = NoInstance
    /\ current_states = <<>>
    /\ visited_items_count = 0
    /\ input = InputOk(items, capacity, granularity)
    /\ text = <<>>
    /\ tie_overwrites = 0
    /\ StoreEmpty

(* The call is made and runs to its end: WF_vars(BktSolve), written out    *)
(* with CanStep as its enabling condition.                                 *)
SpecWide ==
    InitWide /\ [][BktSolve]_vars /\ ([]<>(~CanStep) \/ []<><<BktSolve>>_vars)

(* The solution BktSolver returned is exact and consistent.                *)
BktExact ==
    (method = "Bkt" /\ pc = "done")
        => /\ solution.tag = "Ok"
           /\ Range(solution.items) \subseteq Indices(items)
           /\ Cardinality(Range(solution.items)) = Len(solution.items)
           /\ WeightOf(items, Range(solution.items)) <= capacity
           /\ solution.total_value = ProfitOf(items, Range(solution.items))
           /\ Len(items) >= 1
                 => solution.total_value = DpSolver_solve(items, capacity).total_value

(* C25: BktSolver.solve terminates on every valid input and returns an     *)
(* exact, consistent solution: the items are a subset of total weight <=   *)
(* capacity, total_value is the sum of their profits, and total_value is   *)
(* the total_value DpSolver.solve returns for the same input.              *)
C25_BktTerminatesExact ==
    /\ [] BktExact
    /\ ((method = "Bkt" /\ pc = "ready") ~> (pc = "done"))

============================================================================
